---- MODULE Spec2Model ----
(***************************************************************************)
(* Model of minion/plugins/nessus.py: NessusPlugin.do_run (the scan        *)
(* orchestration), NessusPlugin.connect (the transport) and                *)
(* NessusPlugin.parse_csv_data (the result transform).                     *)
(*                                                                         *)
(* The remote Nessus server is the environment: every response it gives is *)
(* drawn from a small set (status code, whether the body parses as JSON,   *)
(* which keys the JSON object has, and the value under the key the caller  *)
(* reads).  A Python exception that leaves do_run or parse_csv_data ends   *)
(* the run in pc = "failed" with err naming the exception and the place.   *)
(*                                                                         *)
(* Python sequences are 0-based; Col(row, k) is Python's row[k].           *)
(***************************************************************************)
EXTENDS Integers, Sequences, FiniteSets, TLC

\* ------------------------------------------------------------- bounds
\* most status polls, and most export-status polls, of one run
MaxPolls == 2
\* most entries of a policy catalog
MaxTemplates == 2
\* most entries of a history listing
MaxHistory == 2
\* most rows of a body handed directly to parse_csv_data
MaxRows == 3
\* most management operations called on one plugin
MaxOps == 2

\* ------------------------------------------------------------- value sets
Codes      == {200, 500}
Tokens     == {"tok1", "tok2"}
Titles     == {"Basic Network Scan", "Web App Tests"}
PolicyIds  == {"abc-123", "def-456"}
ScanIds    == {"42", "43"}
RunUuids   == {"run-1", "run-2"}
HistoryIds == {"7", "8"}
FileIds    == {"9", "10"}
Statuses   == {"running", "completed", "aborted"}
ExportStatuses == {"loading", "ready"}
PluginIds  == {"19506", "10287"}
Risks      == {"None", "none", "Low"}
\* stands for a JSON object that lacks the nested key the caller reads next
Missing    == "<missing>"

\* ------------------------------------------------------------- helpers
Range(s) == {s[i] : i \in 1..Len(s)}

SeqsUpTo(S, n) == UNION {[1..k -> S] : k \in 0..n}

\* Python's row[k]
Col(row, k) == row[k + 1]

\* dict(...) built from a sequence of (key, value) pairs: a later pair
\* replaces an earlier one with the same key.  A dict is a set of pairs.
dict(pairs) ==
  {pairs[i] : i \in {j \in 1..Len(pairs) :
                       \A k \in (j + 1)..Len(pairs) : pairs[k][1] # pairs[j][1]}}

Keys(d) == {p[1] : p \in d}

\* d[k], for k in Keys(d)
Get(d, k) == (CHOOSE p \in d : p[1] = k)[2]

\* ------------------------------------------------------------- responses
\* The responses the server can give to a call whose caller reads `key`: a
\* success answer is a JSON object that holds the key or not; a non-success
\* answer is a JSON object that holds an error message or not, and no payload;
\* either may fail to parse as JSON.
JsonResp(key, Vals) ==
  {[code |-> 200, parseable |-> TRUE, keys |-> k, val |-> v] :
      k \in SUBSET {key}, v \in Vals}
  \cup
  {[code |-> c, parseable |-> TRUE, keys |-> k, val |-> CHOOSE v \in Vals : TRUE] :
      c \in Codes \ {200}, k \in SUBSET {"error"}}
  \cup
  {[code |-> c, parseable |-> FALSE, keys |-> {}, val |-> CHOOSE v \in Vals : TRUE] :
      c \in Codes}

\* 'download' in resource
IsDownload(resource) == "download" \in Range(resource)

\* connect, lines 125-133: what it does with the response r.  out is the
\* exception raised, or "json" / "content" for the kind of value returned.
connect(method, resource, r) ==
  IF r.code # 200 /\ ~r.parseable THEN "ValueError"
  ELSE IF r.code # 200 /\ "error" \notin r.keys THEN "KeyError"
  ELSE IF IsDownload(resource) \/ method = "DELETE" THEN "content"
  ELSE IF ~r.parseable THEN "ValueError"
  ELSE "json"

Raised(out) == out \in {"ValueError", "KeyError"}

VARIABLES
  pc,           \* position in do_run / parse_csv_data
  err,          \* the exception that ended the run, and where it was raised
  server_url,   \* self.server_url
  creds,        \* <<self._username, self._password>>
  token,        \* self._token
  config,       \* self.configuration
  policies,     \* do_run locals
  policy_id,
  scan_id,
  scan_uuid,
  history_ids,
  history_id,
  file_id,
  st,           \* what status() returned last (line 41)
  ready,        \* what export_status() returned last (line 290)
  data,         \* the downloaded body: a sequence of rows
  plugins,      \* parse_csv_data locals
  issues,
  rowIdx,       \* rows of the body the loop has consumed
  sink,         \* calls made to report_issue / report_finish, in order
  calls,        \* requests sent to the server, in order
  lastConn      \* the last invocation of connect and its outcome

runVars   == <<policies, policy_id, scan_id, scan_uuid, history_ids, history_id, file_id,
              st, ready, data>>
parseVars == <<plugins, issues, rowIdx, sink>>
selfVars  == <<server_url, creds, token, config>>
vars == <<pc, err, selfVars, runVars, parseVars, calls, lastConn>>

NoErr == [exc |-> "", at |-> ""]
NoConn ==
  [method |-> "", resource |-> <<>>, code |-> 200, out |-> "", val |-> [none |-> ""]]

\* one invocation of connect: the request, the status code of the answer,
\* what connect did with it and, when it returned a JSON object that holds the
\* key the caller reads, the value under that key
Conn(method, resource, r) ==
  [method |-> method, resource |-> resource, code |-> r.code,
   out |-> connect(method, resource, r),
   val |-> IF connect(method, resource, r) = "json" /\ r.keys \ {"error"} # {}
             THEN (CHOOSE k \in r.keys \ {"error"} : TRUE) :> r.val
             ELSE [none |-> ""]]

\* faulty variant of line 106: the header carries the class default ''
CallWithoutToken(op, method, resource, payload) ==
  [op |-> op, method |-> method, resource |-> resource, payload |-> payload,
   token |-> ""]

\* The request connect sends (lines 106-123), named by the method that sent it
Call(op, method, resource, payload) ==
  [op |-> op, method |-> method, resource |-> resource, payload |-> payload,
   token |-> token]

Send(op, method, resource, payload, r) ==
  /\ calls' = Append(calls, Call(op, method, resource, payload))
  /\ lastConn' = Conn(method, resource, r)

Fail(exc, at) ==
  /\ pc' = "failed"
  /\ err' = [exc |-> exc, at |-> at]

Goto(l) ==
  /\ pc' = l
  /\ err' = err

Count(op) == Cardinality({i \in 1..Len(calls) : calls[i].op = op})


\* ------------------------------------------------------------- tabular body
\* A body is the sequence of rows csv.reader yields for data.splitlines();
\* a row is the sequence of its fields.  An empty line yields the empty row.
Header ==
  <<"Plugin ID", "CVE", "CVSS", "Risk", "Host", "Protocol", "Port", "Name",
    "Synopsis", "Description", "Solution", "See Also", "Plugin Output">>

DataRow(id, risk) ==
  <<id, "CVE-2014-0001", "5.0", risk, "10.0.1.1", "tcp",
    IF id = "19506" THEN "88" ELSE "443", "title",
    "synopsis", "description", "solution", "see also", "plugin output">>

ShortRow == SubSeq(DataRow("19506", "Low"), 1, 3)
LongRow  == DataRow("10287", "Low") \o <<"extra">>
EmptyRow == <<>>

DataRows == {DataRow(id, risk) : id \in PluginIds, risk \in Risks}
Rows     == DataRows \cup {Header, ShortRow, LongRow, EmptyRow}

Bodies(n) == SeqsUpTo(Rows, n)

\* The body of a non-success download answer that connect lets through: the
\* text of a JSON object with an "error" key, which reads as one row.
ErrBody == << <<"{\"error\": \"denied\"}">> >>

\* the bodies a full run downloads
RunBodies ==
  {<<>>, <<Header, DataRow("19506", "Low")>>, <<Header, ShortRow>>}

DownloadResp ==
  {[code |-> 200, parseable |-> FALSE, keys |-> {}, val |-> b] : b \in RunBodies}
  \cup
  {[code |-> 500, parseable |-> TRUE, keys |-> k, val |-> ErrBody] : k \in SUBSET {"error"}}
  \cup
  {[code |-> 500, parseable |-> FALSE, keys |-> {}, val |-> ErrBody]}

\* ------------------------------------------------------------- resources
SessionRes            == <<"session">>
TemplatesRes          == <<"editor", "policy", "templates">>
ScansRes              == <<"scans">>
ScanRes(sid)          == <<"scans", sid>>
LaunchRes(sid)        == <<"scans", sid, "launch">>
\* faulty variant of line 285: the export is requested of a fixed scan
ExportResFixed(sid)   == <<"scans", "42", "export">>
ExportRes(sid)        == <<"scans", sid, "export">>
ExportStatusRes(sid, fid) == <<"scans", sid, "export", fid, "status">>
DownloadRes(sid, fid) == <<"scans", sid, "export", fid, "download">>
PluginRes(pid)        == <<"plugins", "plugin", pid>>

NoPayload == [none |-> ""]

\* ------------------------------------------------------------- do_run
Templates == [title : Titles, uuid : PolicyIds]
Histories == [uuid : RunUuids, history_id : HistoryIds]

\* faulty variant of line 164: an earlier entry is kept when a later one has
\* the same title
PoliciesOfFirst(templates) ==
  {<<templates[j].title, templates[j].uuid>> :
     j \in {i \in 1..Len(templates) :
              \A k \in 1..(i - 1) : templates[k].title # templates[i].title}}

\* get_policies, line 164
PoliciesOf(templates) ==
  dict([i \in 1..Len(templates) |-> <<templates[i].title, templates[i].uuid>>])

\* get_history_ids, line 176
HistoryIdsOf(history) ==
  dict([i \in 1..Len(history) |-> <<history[i].uuid, history[i].history_id>>])

\* d[k] as Python evaluates it: the value, or the KeyError it raises
Index(d, k) ==
  IF k \in Keys(d) THEN [exc |-> "", val |-> Get(d, k)]
  ELSE [exc |-> "KeyError", val |-> ""]

\* d.get(k, ''): never raises
IndexOrDefault(d, k) ==
  [exc |-> "", val |-> IF k \in Keys(d) THEN Get(d, k) ELSE ""]

\* faulty variant of line 33: policies.get(policy_name, '')
PolicyLookupDefault(d, title) == IndexOrDefault(d, title)

\* do_run, line 33: policies[policy_name]
PolicyLookup(d, title) == Index(d, title)

\* faulty variant of line 40: history_ids.get(scan_uuid, '')
HistoryLookupDefault(d, uuid) == IndexOrDefault(d, uuid)

\* do_run, line 40: history_ids[scan_uuid]
HistoryLookup(d, uuid) == Index(d, uuid)

\* faulty variant of line 41: "aborted" ends the polling loop too
StatusDoneOrAborted(s) == s \in {"completed", "aborted"}

\* do_run, line 41: the polling loop ends on this status
StatusDone(s) == s = "completed"

\* faulty variant of lines 41-42: the loop launches the scan again
AfterStatusRelaunch(s) == IF StatusDone(s) THEN "export" ELSE "launch"

\* do_run, lines 41-44: where the run goes once status() has returned s
AfterStatus(s) == IF StatusDone(s) THEN "export" ELSE "status"

\* faulty variant of line 270: the comparison is inverted
ExportReadyInverted(s) == s # "ready"

\* export_status, line 270
ExportReady(s) == s = "ready"

\* faulty variant of lines 290-291: the loop does not end when the export is
\* ready
AfterExportStatusStuck(b) == "export_status"

\* faulty variant of lines 290-291: readiness is polled once, not awaited
AfterExportStatusOnce(b) == "download"

\* export, lines 290-293: where the run goes once export_status() has
\* returned b
AfterExportStatus(b) == IF b = FALSE THEN "export_status" ELSE "download"

\* line 25, login (lines 135-144)
Login ==
  /\ pc = "login"
  /\ \E r \in JsonResp("token", Tokens) :
       /\ Send("login", "POST", SessionRes,
               [username |-> creds[1], password |-> creds[2]], r)
       /\ IF Raised(connect("POST", SessionRes, r))
            THEN Fail(connect("POST", SessionRes, r), "connect") /\ token' = token
          ELSE IF "token" \notin r.keys
            THEN Fail("KeyError", "login") /\ token' = token
          ELSE Goto("get_policies") /\ token' = r.val
  /\ UNCHANGED <<server_url, creds, config, runVars, parseVars>>

\* lines 27-33, get_policies (lines 153-164)
GetPolicies ==
  /\ pc = "get_policies"
  /\ \E r \in JsonResp("templates", SeqsUpTo(Templates, MaxTemplates)) :
       /\ Send("get_policies", "GET", TemplatesRes, NoPayload, r)
       /\ IF Raised(connect("GET", TemplatesRes, r))
            THEN Fail(connect("GET", TemplatesRes, r), "connect")
                 /\ UNCHANGED <<policies, policy_id>>
          ELSE IF "templates" \notin r.keys
            THEN Fail("KeyError", "get_policies") /\ UNCHANGED <<policies, policy_id>>
          ELSE /\ policies' = PoliciesOf(r.val)
               /\ LET found == PolicyLookup(PoliciesOf(r.val), config.policy) IN
                    IF found.exc = ""
                      THEN Goto("add") /\ policy_id' = found.val
                      ELSE Fail(found.exc, "policies[policy_name]")
                           /\ policy_id' = policy_id
  /\ UNCHANGED <<selfVars, scan_id, scan_uuid, history_ids, history_id, file_id, st, ready,
                 data, parseVars>>

\* lines 34-36, add (lines 190-209)
Add ==
  /\ pc = "add"
  /\ \E r \in JsonResp("scan", ScanIds \cup {Missing}) :
       /\ Send("add", "POST", ScansRes,
               [uuid |-> policy_id, name |-> config.scan_name,
                description |-> config.scan_description,
                text_targets |-> config.target], r)
       /\ IF Raised(connect("POST", ScansRes, r))
            THEN Fail(connect("POST", ScansRes, r), "connect") /\ scan_id' = scan_id
          ELSE IF "scan" \notin r.keys
            THEN Fail("KeyError", "add") /\ scan_id' = scan_id
          ELSE IF r.val = Missing
            THEN Fail("KeyError", "scan_data['id']") /\ scan_id' = scan_id
          ELSE Goto("launch") /\ scan_id' = r.val
  /\ UNCHANGED <<selfVars, policies, policy_id, scan_uuid, history_ids, history_id,
                 file_id, st, ready, data, parseVars>>

\* line 38, launch (lines 236-245)
Launch ==
  /\ pc = "launch"
  /\ \E r \in JsonResp("scan_uuid", RunUuids) :
       /\ Send("launch", "POST", LaunchRes(scan_id), NoPayload, r)
       /\ IF Raised(connect("POST", LaunchRes(scan_id), r))
            THEN Fail(connect("POST", LaunchRes(scan_id), r), "connect")
                 /\ scan_uuid' = scan_uuid
          ELSE IF "scan_uuid" \notin r.keys
            THEN Fail("KeyError", "launch") /\ scan_uuid' = scan_uuid
          ELSE Goto("get_history_ids") /\ scan_uuid' = r.val
  /\ UNCHANGED <<selfVars, policies, policy_id, scan_id, history_ids, history_id,
                 file_id, st, ready, data, parseVars>>

\* lines 39-40, get_history_ids (lines 166-176)
GetHistoryIds ==
  /\ pc = "get_history_ids"
  /\ \E r \in JsonResp("history", SeqsUpTo(Histories, MaxHistory)) :
       /\ Send("get_history_ids", "GET", ScanRes(scan_id), NoPayload, r)
       /\ IF Raised(connect("GET", ScanRes(scan_id), r))
            THEN Fail(connect("GET", ScanRes(scan_id), r), "connect")
                 /\ UNCHANGED <<history_ids, history_id>>
          ELSE IF "history" \notin r.keys
            THEN Fail("KeyError", "get_history_ids")
                 /\ UNCHANGED <<history_ids, history_id>>
          ELSE /\ history_ids' = HistoryIdsOf(r.val)
               /\ LET found == HistoryLookup(HistoryIdsOf(r.val), scan_uuid) IN
                    IF found.exc = ""
                      THEN Goto("status") /\ history_id' = found.val
                      ELSE Fail(found.exc, "history_ids[scan_uuid]")
                           /\ history_id' = history_id
  /\ UNCHANGED <<selfVars, policies, policy_id, scan_id, scan_uuid, file_id, st, ready,
                 data, parseVars>>

\* lines 41-42, status (lines 247-257) and get_scan_history (lines 178-188):
\* one turn of the polling loop
Status ==
  /\ pc = "status"
  /\ Count("status") < MaxPolls
  /\ \E r \in JsonResp("info", Statuses \cup {Missing}) :
       LET out == connect("GET", ScanRes(scan_id), r) IN
       /\ Send("status", "GET", ScanRes(scan_id), [history_id |-> history_id], r)
       /\ IF Raised(out) THEN Fail(out, "connect") /\ st' = st
          ELSE IF "info" \notin r.keys
            THEN Fail("KeyError", "get_scan_history") /\ st' = st
          ELSE IF r.val = Missing THEN Fail("KeyError", "status") /\ st' = st
          ELSE /\ st' = r.val
               /\ Goto(AfterStatus(r.val))
  /\ UNCHANGED <<selfVars, policies, policy_id, scan_id, scan_uuid, history_ids,
                 history_id, file_id, ready, data, parseVars>>

\* line 44, export (lines 283-288): the export request
ExportRequest ==
  /\ pc = "export"
  /\ \E r \in JsonResp("file", FileIds) :
       /\ Send("export", "POST", ExportRes(scan_id),
               [history_id |-> history_id, format |-> "csv"], r)
       /\ IF Raised(connect("POST", ExportRes(scan_id), r))
            THEN Fail(connect("POST", ExportRes(scan_id), r), "connect")
                 /\ file_id' = file_id
          ELSE IF "file" \notin r.keys
            THEN Fail("KeyError", "export") /\ file_id' = file_id
          ELSE Goto("export_status") /\ file_id' = r.val
  /\ UNCHANGED <<selfVars, policies, policy_id, scan_id, scan_uuid, history_ids,
                 history_id, st, ready, data, parseVars>>

\* export (lines 290-293) and export_status (lines 259-270): one turn of the
\* readiness loop; fid is export's local, returned to do_run when the loop ends
ExportStatus ==
  /\ pc = "export_status"
  /\ Count("export_status") < MaxPolls
  /\ \E r \in JsonResp("status", ExportStatuses) :
       LET res == ExportStatusRes(scan_id, file_id)
           out == connect("GET", res, r)
       IN
       /\ Send("export_status", "GET", res, NoPayload, r)
       /\ IF Raised(out) THEN Fail(out, "connect") /\ ready' = ready
          ELSE IF "status" \notin r.keys
            THEN Fail("KeyError", "export_status") /\ ready' = ready
          ELSE /\ ready' = ExportReady(r.val)
               /\ Goto(AfterExportStatus(ExportReady(r.val)))
  /\ UNCHANGED <<selfVars, policies, policy_id, scan_id, scan_uuid, history_ids,
                 history_id, file_id, st, data, parseVars>>

\* line 45, download (lines 295-306)
Download ==
  /\ pc = "download"
  /\ \E r \in DownloadResp :
       LET res == DownloadRes(scan_id, file_id) IN
       /\ Send("download", "GET", res, NoPayload, r)
       /\ IF Raised(connect("GET", res, r))
            THEN Fail(connect("GET", res, r), "connect") /\ data' = data
            ELSE Goto("parse") /\ data' = r.val
  /\ UNCHANGED <<selfVars, policies, policy_id, scan_id, scan_uuid, history_ids,
                 history_id, file_id, st, ready, parseVars>>


\* ------------------------------------------------------------- transform
Attr(n, v) == [attribute_name |-> n, attribute_value |-> v]

\* the 'attributes' lists the server gives for a plugin
PluginInfos ==
  {<<Attr("fname", "x.nasl"), Attr("plugin_name", "Kerberos Detection")>>,
   <<Attr("fname", "x.nasl")>>}

PluginResp == JsonResp("attributes", PluginInfos)

\* the JSON object connect returns for a plugin, as the cache keeps it
Info(r) ==
  [keys |-> r.keys, attributes |-> IF "attributes" \in r.keys THEN r.val ELSE <<>>]

None == "<None>"

\* faulty variant of line 310: the comparison ignores case
minion_severity_anycase(risk) == IF risk \in {"None", "none"} THEN "Info" ELSE risk

\* minion_severity, lines 308-313
minion_severity(risk) == IF risk = "None" THEN "Info" ELSE risk

\* _get_plugin_name, lines 315-321: the value of the last attribute named
\* plugin_name, or None
RECURSIVE NameIn(_, _)
NameIn(attrs, name) ==
  IF attrs = <<>> THEN name
  ELSE NameIn(Tail(attrs),
              IF Head(attrs).attribute_name = "plugin_name"
                THEN Head(attrs).attribute_value ELSE name)

_get_plugin_name(plugin_info) == NameIn(plugin_info.attributes, None)

\* _build_description, lines 323-326: the pieces, joined by single spaces
_build_description(row, plugin_name) ==
  <<plugin_name, Col(row, 8), Col(row, 9), Col(row, 10), Col(row, 12)>>

\* create_issue, lines 344-353: the exception it raises for (row, plugin_info),
\* in the order Python evaluates the lines, or "" when it returns
create_issue_exc(row, plugin_info) ==
  IF "attributes" \notin plugin_info.keys THEN "KeyError"
  ELSE IF Len(row) < 9 THEN "IndexError"
  ELSE IF _get_plugin_name(plugin_info) = None THEN "TypeError"
  ELSE IF Len(row) < 13 THEN "IndexError"
  ELSE ""

\* create_issue, lines 346-353: the value it returns
create_issue(row, plugin_info) ==
  [Severity    |-> minion_severity(Col(row, 3)),
   Summary     |-> Col(row, 8),
   Description |-> _build_description(row, _get_plugin_name(plugin_info)),
   URLs        |-> << [URL |-> <<Col(row, 4), Col(row, 6)>>] >>,
   Ports       |-> <<Col(row, 6)>>]

\* faulty variant of lines 381-382: the header row is not skipped
IsHeaderNever(row) == FALSE

\* line 381
IsHeader(row) == Col(row, 0) = "Plugin ID"

\* faulty variant of line 383: the cache is not consulted
InCacheNever(id, cache) == FALSE

\* line 383: row[0] in plugins
InCache(id, cache) == id \in Keys(cache)

\* faulty variant of lines 385-386: report_finish is called inside the loop
report_issue_and_finish(s, issue) ==
  Append(Append(s, [kind |-> "issue", issue |-> issue]), [kind |-> "finish"])

\* line 385: report_issue(issue) on the sink s
report_issue(s, issue) == Append(s, [kind |-> "issue", issue |-> issue])

\* line 386: report_finish() on the sink s
report_finish(s) == Append(s, [kind |-> "finish"])

\* line 385, once plugins[row[0]] is there
Emit(row, cache) ==
  /\ plugins' = cache
  /\ IF create_issue_exc(row, Get(cache, Col(row, 0))) # ""
       THEN /\ Fail(create_issue_exc(row, Get(cache, Col(row, 0))), "create_issue")
            /\ UNCHANGED <<sink, rowIdx>>
       ELSE /\ Goto("parse")
            /\ sink' = report_issue(sink, create_issue(row, Get(cache, Col(row, 0))))
            /\ rowIdx' = rowIdx + 1

\* lines 380-385: one turn of the loop over the rows
ParseRow ==
  /\ pc = "parse"
  /\ rowIdx < Len(data)
  /\ LET row == data[rowIdx + 1] IN
       IF Len(row) = 0
         THEN Fail("IndexError", "parse_csv_data")
              /\ UNCHANGED <<plugins, sink, rowIdx, calls, lastConn>>
       ELSE IF IsHeader(row)
         THEN Goto("parse") /\ rowIdx' = rowIdx + 1
              /\ UNCHANGED <<plugins, sink, calls, lastConn>>
       ELSE IF InCache(Col(row, 0), plugins)
         THEN Emit(row, plugins) /\ UNCHANGED <<calls, lastConn>>
       ELSE \E r \in PluginResp :
              LET res == PluginRes(Col(row, 0)) IN
              /\ Send("get_plugin_info", "GET", res, NoPayload, r)
              /\ IF Raised(connect("GET", res, r))
                   THEN Fail(connect("GET", res, r), "connect")
                        /\ UNCHANGED <<plugins, sink, rowIdx>>
                   ELSE Emit(row, plugins \cup {<<Col(row, 0), Info(r)>>})
  /\ UNCHANGED <<selfVars, runVars, issues>>

\* faulty variant of line 46: the session is deleted once the pass is over
ParseFinishWithLogout ==
  /\ pc = "parse"
  /\ rowIdx = Len(data)
  /\ sink' = report_finish(sink)
  /\ Goto("done")
  /\ \E r \in JsonResp("scan", {""}) : Send("logout", "DELETE", SessionRes, NoPayload, r)
  /\ UNCHANGED <<selfVars, runVars, plugins, issues, rowIdx>>

\* lines 386-387: the loop is over; parse_csv_data returns issues
ParseFinish ==
  /\ pc = "parse"
  /\ rowIdx = Len(data)
  /\ sink' = report_finish(sink)
  /\ Goto("done")
  /\ UNCHANGED <<selfVars, runVars, plugins, issues, rowIdx, calls, lastConn>>

\* ------------------------------------------------------------- specifications
Configs ==
  [policy : {"Basic Network Scan"}, target : {"10.0.0.1"}, scan_name : {"nightly"},
   scan_description : {"d"}]

\* do_configure has run (lines 71-74); no local of do_run is set yet
Configured ==
  /\ err = NoErr
  /\ server_url = "https://nessus:8834/"
  /\ creds = <<"user", "pass">>
  /\ config \in Configs
  /\ policies = {}
  /\ policy_id = ""
  /\ scan_id = ""
  /\ scan_uuid = ""
  /\ history_ids = {}
  /\ history_id = ""
  /\ file_id = ""
  /\ st = ""
  /\ ready = FALSE
  /\ plugins = {}
  /\ issues = <<>>
  /\ rowIdx = 0
  /\ sink = <<>>
  /\ calls = <<>>
  /\ lastConn = NoConn

\* do_run is about to start
Init ==
  /\ Configured
  /\ pc = "login"
  /\ token = ""
  /\ data = <<>>

Next ==
  \/ Login
  \/ GetPolicies
  \/ Add
  \/ Launch
  \/ GetHistoryIds
  \/ Status
  \/ ExportRequest
  \/ ExportStatus
  \/ Download
  \/ ParseRow
  \/ ParseFinish

Spec == Init /\ [][Next]_vars

\* do_run is one sequential thread: a step that can be taken is taken (every
\* step moves the thread, sends a request or advances the row loop)
SpecLive == Spec /\ WF_<<pc, rowIdx, Len(calls)>>(Next)

\* parse_csv_data is called with a body, by a plugin that holds a token
InitTransform ==
  /\ Configured
  /\ pc = "parse"
  /\ token \in Tokens
  /\ data \in Bodies(MaxRows)

NextTransform ==
  \/ ParseRow
  \/ ParseFinish

SpecTransform == InitTransform /\ [][NextTransform]_vars


\* ------------------------------------------------------------- properties
Ops(op) == {i \in 1..Len(calls) : calls[i].op = op}

Stages ==
  <<"login", "get_policies", "add", "launch", "get_history_ids", "status",
    "export", "export_status", "download", "get_plugin_info">>

Rank(op) == CHOOSE i \in 1..Len(Stages) : Stages[i] = op

Repeatable == {"status", "export_status", "get_plugin_info"}

\* C1: the requests of a run go out in the order login, catalog fetch, scan
\* create, launch, history listing, status polls, export request,
\* export-status polls, download, and then the transform's plugin fetches: the
\* first request is the login, every request is of the stage of the one before
\* it (for the polled stages and the plugin fetches) or of the next stage, so
\* no stage is skipped, none is gone back to, and login, catalog fetch,
\* create, launch, history listing, export request and download go out at
\* most once; the transform runs only after the download.
C1_StageOrder ==
  /\ calls # <<>> => calls[1].op = "login"
  /\ \A i \in 1..(Len(calls) - 1) :
       \/ Rank(calls[i + 1].op) = Rank(calls[i].op) + 1
       \/ /\ calls[i + 1].op = calls[i].op
          /\ calls[i].op \in Repeatable
  /\ \A op \in Range(Stages) \ Repeatable : Cardinality(Ops(op)) <= 1
  /\ (pc \in {"parse", "done"} \/ sink # <<>>) => Ops("download") # {}

C1_Witness ==
  /\ pc = "done"
  /\ Cardinality(Ops("status")) >= 2
  /\ Cardinality(Ops("export_status")) >= 2
  /\ Ops("get_plugin_info") # {}
  /\ Len(sink) = 2

\* C2: whenever the answer to a request has a non-success status code,
\* connect raises and returns nothing.
C2_NonSuccessRaises == lastConn.code # 200 => Raised(lastConn.out)

\* C3: once a request of the run has been answered with a non-success status
\* code, the run sends no further request and reports nothing to the sink.
C3_NonSuccessAborts ==
  [][lastConn.code # 200 => (calls' = calls /\ sink' = sink)]_vars

\* the catalog fetch returned a catalog to do_run
CatalogFetched ==
  /\ Len(calls) >= 2
  /\ ~(pc = "failed" /\ Len(calls) = 2 /\ err.at \in {"connect", "get_policies"})

\* C4: if the configured title is in the catalog, the create request carries
\* the template id the catalog gives for that title; if the catalog was
\* fetched and the title is not in it, the run has failed with the KeyError of
\* the lookup and the catalog fetch is the last request it sent.
C4_PolicyResolution ==
  /\ \A i \in Ops("add") :
       /\ config.policy \in Keys(policies)
       /\ calls[i].payload.uuid = Get(policies, config.policy)
  /\ (CatalogFetched /\ config.policy \in Keys(policies) /\ pc # "add")
       => Ops("add") # {}
  /\ (CatalogFetched /\ config.policy \notin Keys(policies)) =>
       /\ pc = "failed"
       /\ err = [exc |-> "KeyError", at |-> "policies[policy_name]"]
       /\ Len(calls) = 2

C4_Witness ==
  /\ Ops("add") # {}
  /\ Cardinality(policies) = 2
  /\ \A p \in policies : p[1] # config.policy => p[2] # Get(policies, config.policy)

\* the history listing returned a listing to do_run
HistoryFetched ==
  /\ Len(calls) >= 5
  /\ ~(pc = "failed" /\ Len(calls) = 5 /\ err.at \in {"connect", "get_history_ids"})

\* C5: if the history listing has an entry with the launch uuid, every status
\* poll and the export request carry that entry's history id; if the listing
\* was fetched and has no such entry, the run has failed with the KeyError of
\* the lookup and has sent no status poll and no export request.
C5_HistoryResolution ==
  /\ \A i \in Ops("status") \cup Ops("export") :
       /\ scan_uuid \in Keys(history_ids)
       /\ calls[i].payload.history_id = Get(history_ids, scan_uuid)
  /\ (HistoryFetched /\ scan_uuid \notin Keys(history_ids)) =>
       /\ pc = "failed"
       /\ err = [exc |-> "KeyError", at |-> "history_ids[scan_uuid]"]
       /\ Ops("status") \cup Ops("export") = {}
       /\ Len(calls) = 5

C5_Witness ==
  /\ Cardinality(Ops("status")) >= 2
  /\ Ops("export") # {}
  /\ Cardinality(history_ids) = 2
  /\ \A p \in history_ids : p[1] # scan_uuid => p[2] # Get(history_ids, scan_uuid)

\* a status poll returned a status to the loop of line 41 in this step
StatusReturned ==
  /\ pc = "status"
  /\ Len(calls') = Len(calls) + 1
  /\ ~(pc' = "failed")

\* C6: the export request goes out only when the last status poll returned
\* "completed", directly after that poll, and no status poll follows it; a
\* status poll that returns any other status leaves the run polling, one that
\* returns "completed" moves it to the export request, and while the run is
\* polling no poll has returned "completed".
C6_CompletedOnly ==
  /\ [](/\ \A i \in Ops("export") :
             /\ st = "completed"
             /\ i > 1 /\ calls[i - 1].op = "status"
             /\ \A j \in Ops("status") : j < i
        /\ (pc = "status" => st # "completed")
        /\ (pc = "export" => st = "completed"))
  /\ [][StatusReturned =>
          /\ st' \in Statuses
          /\ (st' # "completed" => pc' = "status")
          /\ (st' = "completed" => pc' = "export")]_vars

C6_Witness ==
  /\ pc = "status"
  /\ st = "aborted"
  /\ Cardinality(Ops("status")) >= 2

\* C7: a download request for a file id goes out only directly after an
\* export-status poll for the same scan and file id, and only when that poll,
\* the last one, reported ready.
C7_ReadyBeforeDownload ==
  /\ \A i \in Ops("download") :
       /\ ready = TRUE
       /\ i > 1 /\ calls[i - 1].op = "export_status"
       /\ calls[i].resource = DownloadRes(calls[i - 1].resource[2], calls[i - 1].resource[4])
       /\ calls[i - 1].resource = ExportStatusRes(scan_id, file_id)
  /\ (pc = "download" => ready = TRUE)
  /\ (pc = "export_status" /\ Ops("export_status") # {} => ready = FALSE)

C7_Witness ==
  /\ Ops("download") # {}
  /\ Cardinality(Ops("export_status")) >= 2


\* ------------------------------------------------------------- transform properties
IsIssue(e)  == e.kind = "issue"
IsFinish(e) == e.kind = "finish"

\* the rows the loop has consumed, and those of them that are data rows
Consumed     == SubSeq(data, 1, rowIdx)
IsDataRow(row) == row # <<>> /\ row[1] # "Plugin ID"
ConsumedData == SelectSeq(Consumed, IsDataRow)
AllData      == SelectSeq(data, IsDataRow)

\* the plugin-metadata fetches sent for plugin id
Fetches(id) ==
  {i \in 1..Len(calls) :
     calls[i].op = "get_plugin_info" /\ calls[i].resource = PluginRes(id)}

\* C8: report_finish is called at most once, nothing is reported after it, it
\* has been called exactly when the pass has completed, and the pass has then
\* called report_issue once for every data row, a body without data rows
\* included.
C8_FinishOnceLast ==
  /\ \A i \in 1..Len(sink) : IsFinish(sink[i]) => i = Len(sink)
  /\ pc = "done" <=> (sink # <<>> /\ IsFinish(sink[Len(sink)]))
  /\ pc = "done" => Len(SelectSeq(sink, IsIssue)) = Len(AllData)
  /\ pc # "done" => Len(SelectSeq(sink, IsIssue)) = Len(ConsumedData)

C8_Witness ==
  /\ pc = "done"
  /\ Len(sink) = 3
  /\ IsIssue(sink[1]) /\ IsIssue(sink[2]) /\ IsFinish(sink[3])

\* C9: no plugin id is fetched twice; an id is fetched only for a data row
\* the loop has reached, and only when the cache did not hold it; every data
\* row the loop has consumed has had its id fetched exactly once and is in
\* the cache, so that a completed pass has fetched the id of every data row
\* of the body exactly once.
C9_FetchOncePerPlugin ==
  /\ \A i \in 1..Len(calls) :
       calls[i].op = "get_plugin_info" =>
         /\ \E k \in 1..Len(data) :
              /\ k <= rowIdx + 1
              /\ IsDataRow(data[k])
              /\ calls[i].resource = PluginRes(data[k][1])
         /\ Cardinality(Fetches(calls[i].resource[3])) = 1
  /\ \A k \in 1..Len(ConsumedData) :
       /\ Cardinality(Fetches(ConsumedData[k][1])) = 1
       /\ ConsumedData[k][1] \in Keys(plugins)
  /\ Keys(plugins) \subseteq {id \in Keys(plugins) : Fetches(id) # {}}
  /\ pc = "done" =>
       \A k \in 1..Len(AllData) : Cardinality(Fetches(AllData[k][1])) = 1

C9_Witness ==
  /\ pc = "done"
  /\ Len(data) = 3
  /\ \A k \in 1..3 : IsDataRow(data[k])
  /\ data[1][1] = data[3][1]
  /\ data[1][1] # data[2][1]
  /\ Len(calls) = 2

\* C10: the issues reported so far are those of the data rows consumed so
\* far, one per row and in row order, each built from its row and the cached
\* metadata of the row's plugin id, repeated rows included; a completed pass
\* has reported one issue for every data row of the body; no fetch is ever
\* sent for a header row.
C10_IssuePerRowInOrder ==
  /\ LET reported == SelectSeq(sink, IsIssue) IN
       /\ Len(reported) = Len(ConsumedData)
       /\ \A k \in 1..Len(reported) :
            /\ ConsumedData[k][1] \in Keys(plugins)
            /\ reported[k].issue =
                 create_issue(ConsumedData[k], Get(plugins, ConsumedData[k][1]))
            /\ reported[k].issue.Ports = <<ConsumedData[k][7]>>
  /\ pc = "done" => ConsumedData = AllData
  /\ Fetches("Plugin ID") = {}

C10_Witness ==
  /\ pc = "done"
  /\ Len(data) = 3
  /\ data[1] = Header
  /\ data[2] = data[3]
  /\ IsDataRow(data[2])
  /\ Len(sink) = 3
  /\ sink[1] = sink[2]
  /\ IsIssue(sink[1])


\* C11: every issue reported has severity "Info" when the risk field of its
\* row (column 3) is exactly "None", and the risk field itself otherwise.
C11_SeverityNormalised ==
  LET reported == SelectSeq(sink, IsIssue) IN
    /\ Len(reported) = Len(ConsumedData)
    /\ \A k \in 1..Len(reported) :
         /\ ConsumedData[k][4] = "None" => reported[k].issue.Severity = "Info"
         /\ ConsumedData[k][4] # "None" =>
              reported[k].issue.Severity = ConsumedData[k][4]

C11_Witness ==
  /\ pc = "done"
  /\ Len(sink) = 4
  /\ sink[1].issue.Severity = "Info" /\ data[1][4] = "None"
  /\ sink[2].issue.Severity = "none" /\ data[2][4] = "none"
  /\ sink[3].issue.Severity = "Low" /\ data[3][4] = "Low"


\* an export-status poll was sent in this step
ExportPolled ==
  /\ pc = "export_status"
  /\ Len(calls') = Len(calls) + 1

\* C12: an export-status poll changes nothing of the plugin (token, server
\* URL, credentials, configuration) nor any id or local of the run; one that
\* is answered "not ready" returns False and leaves the run polling, without
\* an error; one that is answered "ready" returns True and ends export's
\* loop; export has returned the file id only when the last poll was answered
\* "ready".
C12_ReadinessCheck ==
  /\ [][ExportPolled =>
          /\ selfVars' = selfVars
          /\ <<policies, policy_id, scan_id, scan_uuid, history_ids, history_id,
               file_id, st, data>>' =
             <<policies, policy_id, scan_id, scan_uuid, history_ids, history_id,
               file_id, st, data>>
          /\ parseVars' = parseVars
          /\ (lastConn'.out = "json" /\ lastConn'.val \in {[status |-> x] : x \in ExportStatuses \ {"ready"}}) =>
               (ready' = FALSE /\ pc' = "export_status" /\ err' = err)
          /\ (lastConn'.out = "json" /\ lastConn'.val = [status |-> "ready"]) =>
               (ready' = TRUE /\ pc' = "download" /\ err' = err)]_vars
  /\ [](pc = "download" =>
          /\ ready = TRUE
          /\ calls[Len(calls)].op = "export_status"
          /\ lastConn.val = [status |-> "ready"])

C12_Witness ==
  /\ pc = "download"
  /\ Cardinality(Ops("export_status")) = MaxPolls
  /\ lastConn.val = [status |-> "ready"]
  /\ token \in Tokens


\* C13: when parse_csv_data has returned, the list it returns (issues) is the
\* sequence of the issues it reported to the sink, in order.
C13_ReturnsReported ==
  pc = "done" =>
    LET reported == SelectSeq(sink, IsIssue) IN
      issues = [k \in 1..Len(reported) |-> reported[k].issue]


\* the loop is at a row that is not a header row and has not 13 columns
AtWrongWidthRow ==
  /\ pc = "parse"
  /\ rowIdx < Len(data)
  /\ \/ data[rowIdx + 1] = <<>>
     \/ data[rowIdx + 1][1] # "Plugin ID"
  /\ Len(data[rowIdx + 1]) # Len(Header)

\* C14: a data row with fewer or more than 13 columns, or no column at all,
\* ends the pass in failure at that row: nothing is reported for it, no
\* finish is signalled, and what was reported before stays reported.
C14_WrongColumnCountFatal ==
  [][AtWrongWidthRow => (pc' = "failed" /\ sink' = sink)]_vars


\* C15: once the run has started it has sent exactly one login request, its
\* first request, with the empty token; every later request carries the
\* stored token, which is one the server issued; the stored token changes
\* only in the login step, to the token the login answer holds.
C15_SingleSession ==
  /\ [](/\ pc = "login" => calls = <<>>
        /\ pc # "login" => Cardinality(Ops("login")) = 1
        /\ calls # <<>> =>
             /\ calls[1].op = "login"
             /\ calls[1].method = "POST"
             /\ calls[1].resource = SessionRes
             /\ calls[1].token = ""
        /\ \A i \in 2..Len(calls) :
             /\ calls[i].token = token
             /\ token \in Tokens)
  /\ [][token' # token =>
          /\ pc = "login"
          /\ lastConn'.out = "json"
          /\ lastConn'.val = [token |-> token']]_vars

C15_Witness ==
  /\ pc = "done"
  /\ token = "tok2"
  /\ Len(calls) >= 10
  /\ \A i \in 2..Len(calls) : calls[i].token = "tok2"


\* ------------------------------------------------------------- management
\* The operations outside do_run: logout, update, delete, history_delete,
\* called by the host on a plugin that holds a token.  pc = "idle" between
\* calls; an exception leaves the operation and reaches the caller
\* (pc = "failed").
HistoryRes(sid, hid) == <<"scans", sid, "history", hid>>

\* the answers to a request whose caller reads no key of the answer
PlainResp == JsonResp("scan", {""})

Manage(op, method, resource, payload) ==
  /\ Len(calls) < MaxOps
  /\ \E r \in PlainResp :
       /\ Send(op, method, resource, payload, r)
       /\ IF Raised(connect(method, resource, r))
            THEN Fail(connect(method, resource, r), "connect")
            ELSE Goto("idle")
  /\ UNCHANGED <<selfVars, runVars, parseVars>>

\* logout, lines 146-151
Logout ==
  /\ pc = "idle"
  /\ Manage("logout", "DELETE", SessionRes, NoPayload)

\* update, lines 211-234
Update ==
  /\ pc = "idle"
  /\ \E sid \in ScanIds, pid \in PolicyIds \cup {None} :
    Manage("update", "PUT", ScanRes(sid),
           IF pid = None
             THEN [settings_name |-> "nightly", settings_desc |-> "d",
                   settings_text_targets |-> "10.0.0.1"]
             ELSE [settings_name |-> "nightly", settings_desc |-> "d",
                   settings_text_targets |-> "10.0.0.1", uuid |-> pid])

\* delete, lines 389-398
Delete ==
  /\ pc = "idle"
  /\ \E sid \in ScanIds : Manage("delete", "DELETE", ScanRes(sid), NoPayload)

\* history_delete, lines 400-409
HistoryDelete ==
  /\ pc = "idle"
  /\ \E sid \in ScanIds, hid \in HistoryIds :
    Manage("history_delete", "DELETE", HistoryRes(sid, hid), NoPayload)

InitManage ==
  /\ Configured
  /\ pc = "idle"
  /\ token \in Tokens
  /\ data = <<>>

NextManage ==
  \/ Logout
  \/ Update
  \/ Delete
  \/ HistoryDelete

SpecManage == InitManage /\ [][NextManage]_vars

\* C16: logout never raises: whatever the server answers to the session
\* deletion, the operation returns to its caller.
C16_LogoutNeverRaises ==
  (calls # <<>> /\ calls[Len(calls)].op = "logout") => pc # "failed"


\* ------------------------------------------------------------- liveness
\* the reasons a run fails: a request was not answered with a usable answer,
\* the title or the launch uuid did not resolve, or the body was malformed
FailureExcused ==
  pc = "failed" =>
    \/ err.at = "connect" /\ Raised(lastConn.out)
    \/ err.at \in {"login", "get_policies", "add", "scan_data['id']", "launch",
                   "get_history_ids", "get_scan_history", "status", "export",
                   "export_status"}
    \/ err.at = "policies[policy_name]" /\ config.policy \notin Keys(policies)
    \/ err.at = "history_ids[scan_uuid]" /\ scan_uuid \notin Keys(history_ids)
    \/ err.at = "parse_csv_data" /\ data[rowIdx + 1] = <<>>
    \/ /\ err.at = "create_issue"
       /\ create_issue_exc(data[rowIdx + 1],
                           Get(plugins, data[rowIdx + 1][1])) # ""

\* C17: a run that never fails (every request answered usably, title and
\* launch uuid resolved, body well-formed), whose status polls eventually
\* return "completed" and whose export eventually becomes ready, eventually
\* holds the downloaded body at the transform and eventually signals finish;
\* a run fails only for one of the excluded reasons, and it is never left in
\* the polling loop once "completed" was returned nor in the export loop once
\* the export was ready.
C17_Liveness ==
  /\ []FailureExcused
  /\ [](st = "completed" => pc # "status")
  /\ [](ready = TRUE => pc # "export_status")
  /\ ([](pc # "failed") /\ <>(st = "completed") /\ <>(ready = TRUE)) =>
       /\ <>(pc = "parse" /\ Ops("download") # {} /\ rowIdx = 0)
       /\ <>(pc = "done" /\ sink # <<>> /\ IsFinish(sink[Len(sink)]))

C17_Witness ==
  /\ pc = "done"
  /\ st = "completed" /\ ready = TRUE
  /\ Cardinality(Ops("status")) = MaxPolls
  /\ Cardinality(Ops("export_status")) = MaxPolls
  /\ data = <<Header, DataRow("19506", "Low")>>
  /\ IsFinish(sink[Len(sink)])


\* ------------------------------------------------------------- scan identity
ScanOps ==
  {"launch", "get_history_ids", "status", "export", "export_status", "download"}

\* C18: every launch, history listing, status poll, export request,
\* export-status poll and download is addressed to the scan whose id the
\* create call returned, and the run holds no other id at any time; the run
\* sends GET and POST requests of its own stages only, so no update (PUT) and
\* no delete of a scan or of a run (DELETE) ever goes out, in terminal states
\* as in all others.
C18_ScanIdentity ==
  /\ [](/\ \A i \in 1..Len(calls) :
             /\ calls[i].method \in {"GET", "POST"}
             /\ calls[i].op \in Range(Stages)
             /\ calls[i].op \in ScanOps =>
                  /\ Ops("add") # {}
                  /\ \A j \in Ops("add") : j < i
                  /\ scan_id \in ScanIds
                  /\ Len(calls[i].resource) >= 2
                  /\ calls[i].resource[1] = "scans"
                  /\ calls[i].resource[2] = scan_id
        /\ scan_id # "" => Ops("add") # {})
  /\ [][scan_id' # scan_id =>
          /\ pc = "add"
          /\ lastConn'.out = "json"
          /\ lastConn'.val = [scan |-> scan_id']]_vars

C18_Witness ==
  /\ pc = "done"
  /\ scan_id = "43"
  /\ \A op \in ScanOps : Ops(op) # {}
  /\ \A i \in 1..Len(calls) :
       calls[i].op \in ScanOps => calls[i].resource[2] = "43"


\* ------------------------------------------------------------- duplicate titles
\* the catalog fetch, the last request sent, returned a catalog
CatalogReturned ==
  /\ calls # <<>>
  /\ calls[Len(calls)].op = "get_policies"
  /\ lastConn.out = "json"
  /\ DOMAIN lastConn.val = {"templates"}

\* the positions of the catalog entries with the title
Titled(catalog, title) == {i \in 1..Len(catalog) : catalog[i].title = title}

Last(S) == CHOOSE i \in S : \A j \in S : j <= i

\* C19: when the catalog holds one or more entries with a title, the title
\* resolves to the template id of the last of them in catalog order; for the
\* configured title the run goes on to the create call with that id, and no
\* error is raised.
C19_LastDuplicateWins ==
  CatalogReturned =>
    LET catalog == lastConn.val.templates IN
      /\ \A t \in Titles :
           Titled(catalog, t) # {} =>
             /\ t \in Keys(policies)
             /\ Get(policies, t) = catalog[Last(Titled(catalog, t))].uuid
      /\ Titled(catalog, config.policy) # {} =>
           /\ pc = "add"
           /\ err = NoErr
           /\ policy_id = catalog[Last(Titled(catalog, config.policy))].uuid

C19_Witness ==
  /\ CatalogReturned
  /\ Len(lastConn.val.templates) = 2
  /\ lastConn.val.templates[1].title = config.policy
  /\ lastConn.val.templates[2].title = config.policy
  /\ lastConn.val.templates[1].uuid # lastConn.val.templates[2].uuid
  /\ pc = "add"
  /\ policy_id = lastConn.val.templates[2].uuid


\* ------------------------------------------------------------- session kept
Terminal == pc \in {"done", "failed"}

\* the login of the run returned a token
LoggedIn == pc # "login" /\ ~(pc = "failed" /\ Len(calls) = 1)

\* C20: the run never sends the logout request: no request is a DELETE and
\* the session resource is addressed by the login alone; the token is set by
\* the login step, to the token of the login answer, and never changed or
\* cleared afterwards, so that in every terminal state of a run that logged
\* in, done or failed, the plugin holds that token, the one its requests
\* carried.
C20_SessionKept ==
  /\ [](/\ \A i \in 1..Len(calls) :
             /\ calls[i].op # "logout"
             /\ calls[i].method # "DELETE"
             /\ calls[i].resource = SessionRes => (i = 1 /\ calls[i].method = "POST")
        /\ (Terminal /\ LoggedIn) =>
             /\ token \in Tokens
             /\ \A i \in 2..Len(calls) : calls[i].token = token
        /\ (Terminal /\ ~LoggedIn) => token = "")
  /\ [][/\ pc # "login" => token' = token
        /\ (pc = "login" /\ pc' # "failed") => lastConn'.val = [token |-> token']]_vars

C20_Witness ==
  /\ pc = "failed"
  /\ err.at = "create_issue"
  /\ token = "tok1"
  /\ Ops("download") # {}
  /\ \A i \in 2..Len(calls) : calls[i].token = "tok1"

====
